---- MODULE Spec2Model ----
(***************************************************************************)
(* A model of fuzz.py: the TestResults aggregate (add_page, increment,      *)
(* __add__), page discovery (crawl_link, is_external, guess_pages,         *)
(* page_discovery) driving a MechanicalSoup browser against a web site,    *)
(* the vulnerability checks (check_for_*, run_checks), input discovery     *)
(* (parse_urls, find_form_parameters) and the sweeps of test_pages.        *)
(*                                                                         *)
(* Python dicts are functions whose DOMAIN is the set of keys, Python sets *)
(* are sets, Python lists are sequences, and a Python str is a sequence of *)
(* one-character strings, so that find, split, strip, "in" and slicing are *)
(* computed character by character as the code computes them.             *)
(***************************************************************************)
EXTENDS Integers, Sequences, FiniteSets, TLC

VARIABLES
    reg,        \* the TestResults objects of the aggregation run, by name
    nOps,       \* how many add_page / increment calls have been made
    addPc,      \* how many of the __add__ calls of AddSchedule have been made
    site,       \* the web site the browser talks to (fixed during a run)
    options,    \* the word and extension files the command line options name
    base_url,   \* the url given on the command line
    browser,    \* the StatefulBrowser: its current url and page
    discovered_urls,  \* the set of hrefs already discovered
    external_links,   \* the set of hrefs found to be external
    valid_pages,      \* the dictionary of valid pages: url -> [title, ...]
    stack,      \* the active crawl_link calls, innermost first
    pc,         \* where the run is: "off", "start", "crawl", "guess", "done", ...
    possible_pages,   \* guess_pages: the candidates not yet probed
    recorded,   \* history: browser.url at each execution of line 559
    followed,   \* history: the links passed to follow_link, with where they led
    probes,     \* history: the urls guess_pages has opened
    check_against,  \* [sensitive, sanitized_chars, slow] as test_pages sets them
    test_results,   \* the TestResults object handed to run_checks
    probe,      \* the arguments of the last run_checks call (<<>> before the first)
    nProbes,    \* how many run_checks calls have been made
    parsed_urls,      \* input_discovery: the lists [url, param, ...] in dict order
    cookies,          \* input_discovery: the set of cookies found
    session_cookies,  \* browser.session.cookies: name -> value
    cookiejar,        \* test_cookies: the copy of the cookie jar taken at the start
    pending,    \* the iterations the running loop has ahead of it, in loop order
    url_results,      \* test_url_parameters: its TestResults
    form_results,     \* test_form_parameters: its TestResults
    cookie_results,   \* test_cookies: name -> (old value, new value)
    overall_results,  \* test_pages: the merged TestResults
    remaining_results,  \* check_remaining_pages: its TestResults
    issued,     \* history: the probes the sweeps have issued
    error       \* the exception that ended the program ("" while none has)

trVars == <<reg, nOps, addPc>>

crawlVars == <<site, options, base_url, browser, discovered_urls, external_links,
               valid_pages, stack, pc, possible_pages, recorded, followed, probes>>

checkVars == <<check_against, test_results, probe, nProbes>>

testVars == <<parsed_urls, cookies, session_cookies, cookiejar, pending, url_results,
              form_results, cookie_results, overall_results, remaining_results, issued,
              error>>

vars == <<trVars, crawlVars, checkVars, testVars>>

----------------------------------------------------------------------------
(* Python str operations, on sequences of one-character strings            *)

Min(S) == CHOOSE m \in S : \A n \in S : m <= n

\* s.find(sub): the lowest 0-based index at which sub occurs in s, or -1.
find(s, sub) ==
    LET at == {i \in 0..(Len(s) - Len(sub)) : SubSeq(s, i + 1, i + Len(sub)) = sub}
    IN IF at = {} THEN -1 ELSE Min(at)

\* sub in s
contains(s, sub) == find(s, sub) > -1

\* s[i:] for a 0-based i with 0 <= i
slice_from(s, i) == SubSeq(s, i + 1, Len(s))

\* s.split(sep)[0]: what precedes the first sep, or all of s.
split_first(s, sep) ==
    IF find(s, sep) = -1 THEN s ELSE SubSeq(s, 1, find(s, sep))

\* s.split(sep): the pieces of s between the occurrences of sep.
RECURSIVE split(_, _)
split(s, sep) ==
    IF find(s, sep) = -1 THEN <<s>>
    ELSE <<SubSeq(s, 1, find(s, sep))>> \o split(slice_from(s, find(s, sep) + Len(sep)), sep)

lower_char(c) ==
    CASE c = "A" -> "a" [] c = "B" -> "b" [] c = "H" -> "h" [] c = "T" -> "t"
      [] c = "P" -> "p" [] OTHER -> c

\* s.lower()
lower(s) == [i \in 1..Len(s) |-> lower_char(s[i])]

Whitespace == {" ", "\n", "\t", "\r"}

\* s.strip(): s without its leading and trailing whitespace.
RECURSIVE strip(_)
strip(s) ==
    IF s = <<>> THEN s
    ELSE IF s[1] \in Whitespace THEN strip(Tail(s))
    ELSE IF s[Len(s)] \in Whitespace THEN strip(SubSeq(s, 1, Len(s) - 1))
    ELSE s

----------------------------------------------------------------------------
(* TestResults                                                             *)

\* The most add_page / increment calls made on the operands before they are merged.
MaxOps == 3

\* Pages, vector categories and vulnerability kinds the operands are built from.
ResultPages == {"p1", "p2"}
VectorTypes == {"SQLi", "XSS"}
Vulnerabilities == {"Sensitive data leaked", "Delayed response"}

EmptyDict == [k \in {} |-> 0]

\* TestResults.__init__ with no arguments: pages = {}, counts = {}.
NewTestResults == [pages |-> EmptyDict, counts |-> EmptyDict]

\* TestResults.add_page(page, [results[0], results[1]]).
add_page(self, page, vtype, found) ==
    LET p1 == IF page \in DOMAIN self.pages
                THEN self.pages
                ELSE [k \in DOMAIN self.pages \cup {page} |->
                        IF k = page THEN EmptyDict ELSE self.pages[k]]
        e1 == IF vtype \in DOMAIN p1[page]
                THEN p1[page]
                ELSE [c \in DOMAIN p1[page] \cup {vtype} |->
                        IF c = vtype THEN {} ELSE p1[page][c]]
        e2 == [e1 EXCEPT ![vtype] = e1[vtype] \cup found]
    IN [self EXCEPT !.pages = [p1 EXCEPT ![page] = e2]]

\* TestResults.increment(element).
increment(self, element) ==
    LET c1 == IF element \in DOMAIN self.counts
                THEN self.counts
                ELSE [k \in DOMAIN self.counts \cup {element} |->
                        IF k = element THEN 0 ELSE self.counts[k]]
    IN [self EXCEPT !.counts = [c1 EXCEPT ![element] = c1[element] + 1]]

\* dict.update(other): every key of other is set to other's value.
dict_update(d, other) ==
    [k \in DOMAIN d \cup DOMAIN other |-> IF k \in DOMAIN other THEN other[k] ELSE d[k]]

\* The loop of __add__ over other.counts, one item per iteration.
RECURSIVE add_counts(_, _, _)
add_counts(counts, other, todo) ==
    IF todo = {} THEN counts
    ELSE LET item == CHOOSE i \in todo : TRUE
             c1 == IF item \in DOMAIN counts
                     THEN counts
                     ELSE [k \in DOMAIN counts \cup {item} |->
                             IF k = item THEN 0 ELSE counts[k]]
             c2 == [c1 EXCEPT ![item] = c1[item] + other[item]]
         IN add_counts(c2, other, todo \ {item})

\* A slip in the loop of __add__: counts[item] += 1 instead of += other.counts[item].
RECURSIVE add_counts_by_one(_, _, _)
add_counts_by_one(counts, other, todo) ==
    IF todo = {} THEN counts
    ELSE LET item == CHOOSE i \in todo : TRUE
             c1 == IF item \in DOMAIN counts
                     THEN counts
                     ELSE [k \in DOMAIN counts \cup {item} |->
                             IF k = item THEN 0 ELSE counts[k]]
             c2 == [c1 EXCEPT ![item] = c1[item] + 1]
         IN add_counts_by_one(c2, other, todo \ {item})

\* __add__ with the loop adding one per item.
add_by_one(self, other) ==
    [pages  |-> dict_update(self.pages, other.pages),
     counts |-> add_counts_by_one(self.counts, other.counts, DOMAIN other.counts)]

\* __add__ starting from an empty counts dict instead of self.counts.copy().
add_no_copy(self, other) ==
    [pages  |-> dict_update(self.pages, other.pages),
     counts |-> add_counts(EmptyDict, other.counts, DOMAIN other.counts)]

\* TestResults.__add__(self, other), both operands TestResults.
add(self, other) ==
    [pages  |-> dict_update(self.pages, other.pages),
     counts |-> add_counts(self.counts, other.counts, DOMAIN other.counts)]

\* The operands that add_page and increment build, the empty TestResults, and
\* the sums computed from them.
Operands == {"A", "B", "C"}
Sums == {"AB", "BA", "BC", "A_BC", "AB_C", "AE", "EA"}

\* The __add__ calls of the run, in order: <<result, left operand, right operand>>.
AddSchedule ==
    << <<"AB", "A", "B">>, <<"BA", "B", "A">>, <<"BC", "B", "C">>,
       <<"A_BC", "A", "BC">>, <<"AB_C", "AB", "C">>,
       <<"AE", "A", "E">>, <<"EA", "E", "A">> >>

\* No TestResults object has been touched.
TRFresh ==
    /\ reg = [r \in Operands \cup Sums \cup {"E"} |-> NewTestResults]
    /\ nOps = 0
    /\ addPc = 0

\* Page discovery is not running.
CrawlOff ==
    /\ site = <<>> /\ options = <<>> /\ base_url = <<>> /\ browser = <<>>
    /\ discovered_urls = {} /\ external_links = {} /\ valid_pages = EmptyDict
    /\ stack = <<>> /\ pc = "off" /\ possible_pages = <<>>
    /\ recorded = <<>> /\ followed = <<>> /\ probes = <<>>

\* No response is being classified.
ChecksOff ==
    /\ check_against = <<>> /\ test_results = NewTestResults
    /\ probe = <<>> /\ nProbes = 0

\* Input discovery and the tests are not running.
TestOff ==
    /\ parsed_urls = <<>> /\ cookies = {} /\ session_cookies = EmptyDict
    /\ cookiejar = EmptyDict /\ pending = <<>>
    /\ url_results = NewTestResults /\ form_results = NewTestResults
    /\ cookie_results = EmptyDict /\ overall_results = NewTestResults
    /\ remaining_results = NewTestResults /\ issued = <<>> /\ error = ""

TRInit == TRFresh /\ CrawlOff /\ ChecksOff /\ TestOff

\* One call of increment on an operand, before any __add__.
TRIncrement ==
    /\ addPc = 0
    /\ nOps < MaxOps
    /\ \E r \in Operands, element \in Vulnerabilities \cup VectorTypes :
          reg' = [reg EXCEPT ![r] = increment(reg[r], element)]
    /\ nOps' = nOps + 1
    /\ UNCHANGED addPc
    /\ UNCHANGED <<crawlVars, checkVars, testVars>>

\* One call of add_page on an operand, before any __add__.
TRAddPage ==
    /\ addPc = 0
    /\ nOps < MaxOps
    /\ \E r \in Operands, page \in ResultPages, vtype \in VectorTypes,
          found \in (SUBSET Vulnerabilities) \ {{}} :
          reg' = [reg EXCEPT ![r] = add_page(reg[r], page, vtype, found)]
    /\ nOps' = nOps + 1
    /\ UNCHANGED addPc
    /\ UNCHANGED <<crawlVars, checkVars, testVars>>

\* The next __add__ call of the schedule.
TRAdd ==
    /\ addPc < Len(AddSchedule)
    /\ LET s == AddSchedule[addPc + 1]
       IN reg' = [reg EXCEPT ![s[1]] = add(reg[s[2]], reg[s[3]])]
    /\ addPc' = addPc + 1
    /\ UNCHANGED nOps
    /\ UNCHANGED <<crawlVars, checkVars, testVars>>

TRNext == TRIncrement \/ TRAddPage \/ TRAdd

SpecMerge == TRInit /\ [][TRNext]_vars

\* Has the sum named s been computed?
Computed(s) == \E i \in 1..addPc : AddSchedule[i][1] = s

----------------------------------------------------------------------------
(* Properties of TestResults.__add__                                       *)

\* The flag set a TestResults holds for a page and a category ({} when none).
FlagsOf(tr, page, vtype) ==
    IF page \in DOMAIN tr.pages /\ vtype \in DOMAIN tr.pages[page]
      THEN tr.pages[page][vtype] ELSE {}

\* The categories a TestResults records for a page.
CategoriesOf(tr, page) ==
    IF page \in DOMAIN tr.pages THEN DOMAIN tr.pages[page] ELSE {}

\* C1: merge(A, B) contains every page of A and of B, and for every page and
\* category its flag set is the union of the flag sets of A and of B; no
\* category entry of either operand is missing.
C1_MergeKeepsEveryEntry ==
    Computed("AB") =>
        \A page \in DOMAIN reg["A"].pages \cup DOMAIN reg["B"].pages :
            /\ page \in DOMAIN reg["AB"].pages
            /\ CategoriesOf(reg["AB"], page) =
                   CategoriesOf(reg["A"], page) \cup CategoriesOf(reg["B"], page)
            /\ \A vtype \in VectorTypes :
                   FlagsOf(reg["AB"], page, vtype) =
                       FlagsOf(reg["A"], page, vtype) \cup FlagsOf(reg["B"], page, vtype)

\* C2: merge is commutative: merge(A, B) and merge(B, A) have equal pages maps
\* and equal counts maps.
C2_MergeCommutative ==
    Computed("BA") =>
        /\ reg["AB"].pages = reg["BA"].pages
        /\ reg["AB"].counts = reg["BA"].counts

\* C3: merge is associative: merge(A, merge(B, C)) and merge(merge(A, B), C)
\* have equal pages maps and equal counts maps.
C3_MergeAssociative ==
    Computed("AB_C") =>
        /\ reg["A_BC"].pages = reg["AB_C"].pages
        /\ reg["A_BC"].counts = reg["AB_C"].counts

\* C3 witness: both groupings have been computed from three operands that all
\* record the same page, with pairwise different category maps.
C3_Witness ==
    /\ Computed("AB_C")
    /\ \E page \in ResultPages :
          /\ \A r \in Operands : page \in DOMAIN reg[r].pages
          /\ reg["A"].pages[page] # reg["B"].pages[page]
          /\ reg["B"].pages[page] # reg["C"].pages[page]
          /\ reg["A"].pages[page] # reg["C"].pages[page]

\* C4: the empty TestResults is an identity of merge: merge(A, empty) and
\* merge(empty, A) both have exactly A's pages map and A's counts map.
C4_EmptyIsIdentity ==
    Computed("EA") =>
        /\ reg["AE"].pages = reg["A"].pages /\ reg["AE"].counts = reg["A"].counts
        /\ reg["EA"].pages = reg["A"].pages /\ reg["EA"].counts = reg["A"].counts

\* C4 witness: both merges with the empty TestResults have been computed for an
\* A that records a page and holds a count above one.
C4_Witness ==
    /\ Computed("EA")
    /\ reg["E"] = NewTestResults
    /\ DOMAIN reg["A"].pages # {}
    /\ \E k \in DOMAIN reg["A"].counts : reg["A"].counts[k] > 1

----------------------------------------------------------------------------
(* The web site and the browser (MechanicalSoup over requests)             *)

Http == <<"h", "t", "t", "p", ":">>
Slashes == <<"/", "/">>
Slash == <<"/">>
Colon == <<":">>
QuestionMark == <<"?">>

\* "http://a" is the target, "http://b" another host.
OriginA == Http \o Slashes \o <<"a">>
RootA == OriginA \o Slash
RootB == Http \o Slashes \o <<"b">> \o Slash

\* The hrefs that occur on the site's pages.
hHome == <<"/">>
hX == <<"x">>
hRootX == <<"/", "x">>
hXq1 == <<"x", "?", "q", "=", "1">>
hXq2 == <<"x", "?", "q", "=", "2">>
hD == <<"d", "/">>
hG == <<"g">>
hM == <<"m">>
hR == <<"r">>
hF == <<"f">>
hE == <<"e">>
hY == <<"y">>
hLogout == <<"l", "o", "g", "o", "u", "t">>
Php == <<".", "p", "h", "p">>
hDeepLogout == <<"/", "l", "o", "g", "o", "u", "t", "?", "x">>
hExt == RootB
hExtRel == <<"/", "/", "b", "/">>
hUpper == Http \o Slashes \o <<"A", "/", "x">>
hPhpids == <<"?", "p", "h", "p", "i", "d", "s", "=", "o", "n">>

\* An <a> element: with an href attribute, or without one.
A(href) == [has_href |-> TRUE, href |-> href]
NoHref == [has_href |-> FALSE, href |-> <<>>]

\* The url without its query string.
strip_query(url) == split_first(url, QuestionMark)

\* scheme://host[:port] of an absolute url.
origin(url) ==
    LET start == find(url, Slashes) + 2
    IN SubSeq(url, 1, start + Len(split_first(slice_from(url, start), Slash)))

\* The url up to and including the last "/" of its path.
directory(url) ==
    LET path == strip_query(url)
        at == {i \in 1..Len(path) : path[i] = "/"}
    IN SubSeq(path, 1, CHOOSE i \in at : \A j \in at : j <= i)

\* requests sends the url with scheme and host in lower case and a path of
\* at least "/".
normalize(url) ==
    LET o == origin(url)
        rest == slice_from(url, Len(o))
    IN lower(o) \o (IF rest = <<>> THEN Slash ELSE rest)

\* urllib.parse.urljoin(current, href), for the href forms of this site.
urljoin(current, href) ==
    IF href = <<>> THEN current
    ELSE IF find(lower(href), Http \o Slashes) = 0 THEN href
    ELSE IF find(href, Slashes) = 0 THEN Http \o href
    ELSE IF href[1] = "/" THEN origin(current) \o href
    ELSE IF href[1] = "?" THEN strip_query(current) \o href
    ELSE directory(current) \o href

\* The host of an absolute url, as the browser understands it.
host_of(url) ==
    lower(split_first(split_first(slice_from(url, find(url, Slashes) + 2), Slash), Colon))

\* The page the server holds at a url (the query string does not select the page).
NoPage == [is_none |-> TRUE, title |-> "", anchors |-> <<>>]
Html(title, anchors) == [is_none |-> FALSE, title |-> title, anchors |-> anchors]

serve(st, url) ==
    LET path == strip_query(url)
    IN CASE path = RootA -> [status_code |-> 200, page |-> Html("home", st.index)]
         [] path = RootA \o hX -> [status_code |-> 200, page |-> Html("x", st.x)]
         [] path = RootA \o hD -> [status_code |-> 200, page |-> Html("d", st.d)]
         [] path = RootA \o hD \o hX ->
                [status_code |-> 200, page |-> Html("dx", <<A(hHome)>>)]
         [] path = RootA \o hLogout -> [status_code |-> 200, page |-> Html("logout", <<>>)]
         [] path = RootA \o hG -> [status_code |-> 200, page |-> Html("g", <<A(hD)>>)]
         [] path = RootA \o hG \o Php ->
                [status_code |-> 200, page |-> Html("gp", <<>>)]
         [] path = RootA \o hE -> [status_code |-> 500, page |-> Html("error", <<>>)]
         [] path = RootA \o hF -> [status_code |-> 200, page |-> NoPage]
         [] path = RootB -> [status_code |-> 200, page |-> Html("b", <<A(hY)>>)]
         [] path = RootB \o hY -> [status_code |-> 200, page |-> Html("by", <<>>)]
         [] OTHER -> [status_code |-> 404, page |-> Html("not found", <<A(hG)>>)]

\* A GET of url: requests follows the redirect the server answers for /r.
fetch(st, url) ==
    LET sent == normalize(url)
        final == IF strip_query(sent) = RootA \o hR THEN st.redirect ELSE sent
    IN [url |-> final, response |-> serve(st, final)]

\* browser.open(url): the browser after the call, and the response.
open(st, url) ==
    LET got == fetch(st, url)
    IN [browser |-> [url |-> got.url, page |-> got.response.page],
        status_code |-> got.response.status_code]

\* browser.follow_link(link): the href is resolved against the current url.
follow_link(st, br, link) == open(st, urljoin(br.url, link.href))

\* The anchor lists the pages /, /x and /d/ may hold, and where /r redirects.
IndexAnchors ==
    { <<A(hX), A(hD)>>,
      <<A(hXq1), A(hXq2), A(hLogout)>>,
      <<A(hD), A(hExt), A(hR), NoHref>>,
      <<A(hM), A(hF), A(hE), A(hUpper), A(hExtRel), A(hPhpids)>>,
      <<A(hX), A(hX), A(hRootX)>> }
XAnchors == { <<>>, <<A(hHome), A(hDeepLogout)>>, <<A(hD), A(hR)>>, <<A(hX), A(hHome)>> }
DAnchors == { <<>>, <<A(hX)>>, <<A(hRootX), A(hLogout)>> }
Redirects == { RootA \o hX, RootB }

Sites == [index : IndexAnchors, x : XAnchors, d : DAnchors, redirect : Redirects]

----------------------------------------------------------------------------
(* Page discovery: is_external, crawl_link, guess_pages, page_discovery    *)

\* The most words in the --common-words file.
MaxWords == 2

Logout == <<"l", "o", "g", "o", "u", "t">>

\* The domain is_external extracts from a link: what follows the first "//",
\* else what follows the first ":", up to the next "/" and ":", in lower case.
link_domain(url) ==
    LET has_double_slash == find(url, Slashes)
        has_colon == find(url, Colon)
        page == IF has_double_slash > -1 THEN slice_from(url, has_double_slash + 2)
                ELSE IF has_colon > -1 THEN slice_from(url, has_colon + 1)
                ELSE url
    IN lower(split_first(split_first(page, Slash), Colon))

\* The domain is_external extracts from the base url.
base_domain(base) ==
    LET base_double_slash == find(base, Slashes)
        base_has_colon == find(base, Colon)
        rest == IF base_double_slash > -1 THEN slice_from(base, base_double_slash + 2)
                ELSE IF base_has_colon > -1 THEN slice_from(base, base_has_colon + 1)
                ELSE base
    IN lower(split_first(split_first(rest, Slash), Colon))

\* is_external(url, base_url, external_links): the value returned, and the set
\* external_links after the call.
is_external(url, base, external) ==
    IF url \in external THEN [result |-> TRUE, external_links |-> external]
    ELSE LET absolute_link == find(url, Slashes) > -1 \/ find(url, Colon) > -1
         IN IF ~absolute_link THEN [result |-> FALSE, external_links |-> external]
            ELSE IF link_domain(url) # base_domain(base)
                   THEN [result |-> TRUE, external_links |-> external \cup {url}]
                   ELSE [result |-> FALSE, external_links |-> external]

\* A logout check that only recognises the href "logout" itself.
avoid_logout_exact(link_url) == link_url = Logout

\* "logout" in link_url
avoid_logout(link_url) == contains(link_url, Logout)

\* A crawler that never adds a link to discovered_urls.
discover_nothing(discovered, link_url) == discovered

\* discovered_urls.add(link_url)
discover(discovered, link_url) == discovered \cup {link_url}

\* The first loop of crawl_link, from link number i on: the links to crawl and
\* the two sets after the loop.
RECURSIVE filter_links(_, _, _, _, _, _)
filter_links(links, i, base, discovered, external, not_yet_crawled) ==
    IF i > Len(links)
      THEN [not_yet_crawled |-> not_yet_crawled, discovered_urls |-> discovered,
            external_links |-> external]
    ELSE LET link == links[i] IN
      IF ~link.has_href
        THEN filter_links(links, i + 1, base, discovered, external, not_yet_crawled)
      ELSE IF link.href \in discovered
        THEN filter_links(links, i + 1, base, discovered, external, not_yet_crawled)
      ELSE LET ext == is_external(link.href, base, external) IN
        IF ext.result
          THEN filter_links(links, i + 1, base, discovered, ext.external_links,
                            not_yet_crawled)
        ELSE IF avoid_logout(link.href)
          THEN filter_links(links, i + 1, base, discover(discovered, link.href),
                            ext.external_links, not_yet_crawled)
        ELSE filter_links(links, i + 1, base, discover(discovered, link.href),
                          ext.external_links, Append(not_yet_crawled, link))

\* d[key] = value
dict_set(d, key, value) ==
    [k \in DOMAIN d \cup {key} |-> IF k = key THEN value ELSE d[k]]

\* A call crawl_link(browser, url, base_url, discovered_urls, external_links,
\* valid_pages) up to its second loop: whether the page was recorded, the three
\* collections after the first loop, and the call's frame.
crawl_link(br, url, base, discovered, external, pages) ==
    IF br.page.is_none \/ url \in DOMAIN pages
      THEN [recorded |-> FALSE, valid_pages |-> pages, discovered_urls |-> discovered,
            external_links |-> external, frame |-> <<>>]
    ELSE LET f == filter_links(br.page.anchors, 1, base, discovered, external, <<>>)
         IN [recorded |-> TRUE,
             valid_pages |-> dict_set(pages, br.url, <<br.page.title>>),
             discovered_urls |-> f.discovered_urls,
             external_links |-> f.external_links,
             frame |-> [not_yet_crawled |-> f.not_yet_crawled, current_page |-> br.url]]

\* The state after a call of crawl_link made with the browser br.
EnterCrawl(br, url, rest) ==
    \E c \in {crawl_link(br, url, base_url, discovered_urls, external_links, valid_pages)} :
       /\ valid_pages' = c.valid_pages
       /\ discovered_urls' = c.discovered_urls
       /\ external_links' = c.external_links
       /\ stack' = IF c.recorded THEN <<c.frame>> \o rest ELSE rest
       /\ recorded' = IF c.recorded THEN Append(recorded, br.url) ELSE recorded

\* The lines of the word and extension files.
line(text) == text \o <<"\n">>
WordLines == { line(hX), line(hR), line(hG), line(hE), line(hF) }
ExtensionFiles == { << line(Php), line(<<>>) >>, << line(<<>>), line(Php) >> }

\* The word files: up to MaxWords different words.
WordFiles ==
    { w \in UNION { [1..n -> WordLines] : n \in 1..MaxWords } :
        \A i, j \in 1..Len(w) : i # j => w[i] # w[j] }

\* The options page discovery reads: --common-words, and --extensions when given.
OptionSets ==
    [words : WordFiles, has_extensions : {FALSE}, extensions : {<<>>}]
      \cup [words : WordFiles, has_extensions : {TRUE}, extensions : ExtensionFiles]

\* The nested loops of guess_pages over the two open files, from word number w
\* on; read is how many lines of the extensions file have been consumed: the
\* file object is iterated from where the last iteration left it.
RECURSIVE words_with_extensions(_, _, _, _)
words_with_extensions(words, w, extensions, read) ==
    IF w > Len(words) THEN <<>>
    ELSE [i \in 1..(Len(extensions) - read) |->
              strip(words[w]) \o strip(extensions[read + i])]
           \o words_with_extensions(words, w + 1, extensions, Len(extensions))

\* possible_pages as guess_pages builds it.
build_possible_pages(opts) ==
    IF opts.has_extensions
      THEN words_with_extensions(opts.words, 1, opts.extensions, 0)
      ELSE [i \in 1..Len(opts.words) |-> strip(opts.words[i])]

\* page_url as guess_pages builds it (page is never empty here).
guess_url(base, page) ==
    LET sep == IF base[Len(base)] # "/" /\ page[1] # "/" THEN Slash ELSE <<>>
    IN base \o sep \o page

\* fuzzer() without --custom-auth: a new browser opens the url given.
CrawlInitOn(sites, urls) ==
    /\ site \in sites
    /\ options = <<>>
    /\ base_url \in urls
    /\ browser = open(site, base_url).browser
    /\ discovered_urls = {} /\ external_links = {} /\ valid_pages = EmptyDict
    /\ stack = <<>> /\ pc = "start" /\ possible_pages = <<>>
    /\ recorded = <<>> /\ followed = <<>> /\ probes = <<>>

\* page_discovery up to the call crawl_link(browser, base_url, ...).
PageDiscovery ==
    /\ pc = "start"
    /\ \E c \in {crawl_link(browser, base_url, base_url, {hPhpids}, {}, EmptyDict)} :
          /\ valid_pages' = c.valid_pages
          /\ discovered_urls' = c.discovered_urls
          /\ external_links' = c.external_links
          /\ stack' = IF c.recorded THEN <<c.frame>> ELSE <<>>
          /\ recorded' = IF c.recorded THEN <<browser.url>> ELSE <<>>
    /\ pc' = "crawl"
    /\ UNCHANGED <<site, options, base_url, browser, possible_pages, followed, probes>>
    /\ UNCHANGED <<trVars, checkVars, testVars>>

\* A crawler that takes every answer to a followed link for a page.
link_found_always(status_code) == TRUE

\* response.status_code != 404 in the second loop of crawl_link
link_found(status_code) == status_code # 404

\* One iteration of the second loop of the innermost crawl_link call: reopen the
\* current page, follow the next link and, unless it answers 404, crawl it.
CrawlFollow ==
    /\ pc \in {"crawl", "guess"}
    /\ stack # <<>>
    /\ Head(stack).not_yet_crawled # <<>>
    /\ \E frame \in {Head(stack)} :
       \E link \in {Head(frame.not_yet_crawled)} :
       \E reopened \in {open(site, frame.current_page)} :
       \E got \in {follow_link(site, reopened.browser, link)} :
       \E rest \in {<<[frame EXCEPT !.not_yet_crawled = Tail(@)]>> \o Tail(stack)} :
          /\ browser' = got.browser
          /\ followed' = Append(followed,
                                [href |-> link.href,
                                 target |-> urljoin(reopened.browser.url, link.href),
                                 status_code |-> got.status_code])
          /\ IF link_found(got.status_code)
               THEN EnterCrawl(got.browser, got.browser.url, rest)
               ELSE /\ stack' = rest
                    /\ UNCHANGED <<valid_pages, discovered_urls, external_links, recorded>>
    /\ UNCHANGED <<site, options, base_url, pc, possible_pages, probes>>
    /\ UNCHANGED <<trVars, checkVars, testVars>>

\* The innermost crawl_link call has followed all its links and returns.
CrawlReturn ==
    /\ pc \in {"crawl", "guess"}
    /\ stack # <<>>
    /\ Head(stack).not_yet_crawled = <<>>
    /\ stack' = Tail(stack)
    /\ UNCHANGED <<site, options, base_url, browser, discovered_urls, external_links,
                   valid_pages, pc, possible_pages, recorded, followed, probes>>
    /\ UNCHANGED <<trVars, checkVars, testVars>>

\* The first crawl_link call has returned: guess_pages opens the files the
\* options name (nothing reads them earlier, so this is where their content
\* shows) and builds possible_pages.
GuessPages ==
    /\ pc = "crawl"
    /\ stack = <<>>
    /\ options' \in OptionSets
    /\ possible_pages' = build_possible_pages(options')
    /\ pc' = "guess"
    /\ UNCHANGED <<site, base_url, browser, discovered_urls, external_links,
                   valid_pages, stack, recorded, followed, probes>>
    /\ UNCHANGED <<trVars, checkVars, testVars>>

\* A test that takes only a 200 answer for a found page.
page_found_only_200(status_code) == status_code = 200

\* response.status_code != 404 in guess_pages
page_found(status_code) == status_code # 404

\* One iteration of the loop of guess_pages over possible_pages.
GuessProbe ==
    /\ pc = "guess"
    /\ stack = <<>>
    /\ possible_pages # <<>>
    /\ \E page_url \in {guess_url(base_url, Head(possible_pages))} :
       \E got \in {open(site, page_url)} :
          /\ browser' = got.browser
          /\ probes' = Append(probes, page_url)
          /\ IF page_found(got.status_code)
               THEN EnterCrawl(got.browser, page_url, <<>>)
               ELSE UNCHANGED <<valid_pages, discovered_urls, external_links, stack,
                                recorded>>
    /\ possible_pages' = Tail(possible_pages)
    /\ UNCHANGED <<site, options, base_url, pc, followed>>
    /\ UNCHANGED <<trVars, checkVars, testVars>>

\* guess_pages has probed every candidate: page_discovery returns.
GuessReturn ==
    /\ pc = "guess"
    /\ stack = <<>>
    /\ possible_pages = <<>>
    /\ pc' = "done"
    /\ UNCHANGED <<site, options, base_url, browser, discovered_urls, external_links,
                   valid_pages, stack, possible_pages, recorded, followed, probes>>
    /\ UNCHANGED <<trVars, checkVars, testVars>>

CrawlInit == CrawlInitOn(Sites, {RootA, OriginA})

Init == TRFresh /\ CrawlInit /\ ChecksOff /\ TestOff

Next ==
    \/ PageDiscovery
    \/ CrawlFollow
    \/ CrawlReturn
    \/ GuessPages
    \/ GuessProbe
    \/ GuessReturn

Spec == Init /\ [][Next]_vars

\* page_discovery has not returned: one of the steps of Next can be taken.
Running == pc # "done"

\* The interpreter does not stop in the middle of the run. This is WF_vars(Next)
\* with ENABLED <<Next>>_vars written out as Running.
SpecFair == Spec /\ ([]<>(~Running) \/ []<><<Next>>_vars)

----------------------------------------------------------------------------
(* Properties of page discovery                                            *)

\* The host of the site being fuzzed.
BaseHost == host_of(normalize(base_url))

\* C5: no canonical url (the url with its query string stripped) is recorded
\* as a page and has its anchors extracted by crawl_link more than once.
C5_CanonicalUrlVisitedOnce ==
    \A i, j \in 1..Len(recorded) :
        i # j => strip_query(recorded[i]) # strip_query(recorded[j])

\* Where the browser is after a GET of url, when that is an HTML page of the
\* site being fuzzed that does not answer 404; {} otherwise.
PageAt(url) ==
    LET got == open(site, url)
    IN IF got.status_code # 404 /\ ~got.browser.page.is_none
          /\ host_of(got.browser.url) = BaseHost
         THEN {got.browser.url} ELSE {}

\* The pages one anchor link away from the page at url: the link is not
\* external, does not contain "logout" and does not answer 404.
LinkedFrom(url) ==
    LET anchors == open(site, url).browser.page.anchors
    IN UNION { PageAt(urljoin(url, anchors[i].href)) :
                 i \in { k \in 1..Len(anchors) :
                           /\ anchors[k].has_href
                           /\ host_of(normalize(urljoin(url, anchors[k].href))) = BaseHost
                           /\ ~contains(anchors[k].href, Logout) } }

\* The pages reachable from the pages in seen through chains of such links.
RECURSIVE ReachableFrom(_)
ReachableFrom(seen) ==
    LET more == seen \cup UNION { LinkedFrom(u) : u \in seen }
    IN IF more = seen THEN seen ELSE ReachableFrom(more)

\* C6: when the crawl started from the base url has terminated, the inventory
\* holds every same-origin page reachable from the base page through anchor
\* links that are not external, do not contain "logout" and do not answer 404
\* (a page counts as held when a key of the inventory has its canonical url).
C6_CrawlFindsEveryReachablePage ==
    (pc = "crawl" /\ stack = <<>>) =>
        \A u \in ReachableFrom(PageAt(base_url)) :
            \E k \in DOMAIN valid_pages : strip_query(k) = strip_query(u)

\* C7: no link whose host differs from the base url's host has been followed,
\* and no url with another host is a key of the page inventory.
C7_NothingExternalFollowedOrRecorded ==
    /\ \A i \in 1..Len(followed) : host_of(normalize(followed[i].target)) = BaseHost
    /\ \A k \in DOMAIN valid_pages : host_of(k) = BaseHost

\* C8: no anchor whose href contains "logout" is ever followed, on any page and
\* at any recursion depth.
C8_LogoutNeverFollowed ==
    \A i \in 1..Len(followed) : ~contains(followed[i].href, Logout)

\* C8 witness: page discovery has ended after crawling a run of pages that
\* held a logout link on the base page and another one a level below it, and
\* links have been followed.
C8_Witness ==
    /\ pc = "done"
    /\ hLogout \in discovered_urls
    /\ hDeepLogout \in discovered_urls
    /\ Len(followed) > 1

\* base/word+extension for every word and every extension: outer loop over the
\* words, inner loop over the extensions, each in file order.
AllCombinations(words, extensions) ==
    [k \in 1..(Len(words) * Len(extensions)) |->
        guess_url(base_url,
                  strip(words[((k - 1) \div Len(extensions)) + 1])
                    \o strip(extensions[((k - 1) % Len(extensions)) + 1]))]

\* C9: with an extension list, guess_pages probes base/word+ext for every pair
\* of a word and an extension, |words| x |extensions| probes, words in the
\* outer loop and extensions in the inner one.
C9_EveryWordWithEveryExtension ==
    (pc = "done" /\ options.has_extensions) =>
        probes = AllCombinations(options.words, options.extensions)

\* C10: without an extension list, guess_pages probes both base/word.php and
\* base/word for every word of the word list.
C10_DefaultExtensions ==
    (pc = "done" /\ ~options.has_extensions) =>
        \A i \in 1..Len(options.words) :
            \E j, k \in 1..Len(probes) :
                /\ probes[j] = guess_url(base_url, strip(options.words[i]) \o Php)
                /\ probes[k] = guess_url(base_url, strip(options.words[i]))

\* The answer to the probe a step of guess_pages has just made.
ProbeAnswer == open(site, probes'[Len(probes')])

\* C11 as claimed: a candidate is a page of the inventory after its probe if
\* and only if the probe does not answer 404 (a 404 adds nothing), and the
\* guess adds no page but the candidates found: all but one candidate
\* answering 404 yields exactly one new page.
C11_FoundIffNot404 ==
    [][ pc = "guess" =>
          /\ probes' # probes =>
               /\ ProbeAnswer.status_code = 404 =>
                    (valid_pages' = valid_pages /\ recorded' = recorded)
               /\ ProbeAnswer.status_code # 404 =>
                    ProbeAnswer.browser.url \in DOMAIN valid_pages'
          /\ DOMAIN valid_pages' \ DOMAIN valid_pages
               \subseteq { open(site, probes'[i]).browser.url : i \in 1..Len(probes') }
      ]_vars

\* C11 as amended: a candidate whose probe answers 404 adds no page and is not
\* crawled; a candidate whose probe answers anything else (5xx included) is
\* handed to crawl_link, which records the url the browser ended at and
\* crawls its links, unless the answer is no HTML page or the candidate url is
\* already a key of the inventory.
C11_FoundUnless404 ==
    [][ (pc = "guess" /\ probes' # probes) =>
          IF \/ ProbeAnswer.status_code = 404
             \/ ProbeAnswer.browser.page.is_none
             \/ probes'[Len(probes')] \in DOMAIN valid_pages
            THEN valid_pages' = valid_pages /\ recorded' = recorded /\ stack' = stack
            ELSE /\ ProbeAnswer.browser.url \in DOMAIN valid_pages'
                 /\ recorded' = Append(recorded, ProbeAnswer.browser.url)
                 /\ Len(stack') = 1
      ]_vars

\* C11 witness: the guess has ended after a candidate answered 500 and was
\* recorded as a new page, and another candidate answered 404.
C11_Witness ==
    /\ pc = "done"
    /\ \E i, j \in 1..Len(probes) :
          /\ open(site, probes[i]).status_code = 500
          /\ probes[i] = recorded[Len(recorded)]
          /\ open(site, probes[j]).status_code = 404

----------------------------------------------------------------------------
(* The vulnerability checks: check_for_*, run_checks                       *)

\* The most run_checks calls made on one TestResults object.
MaxProbes == 2

\* slow when --slow is not given (milliseconds).
DefaultSlow == 500

\* The vectors file: each vector with the category it is listed under, in
\* file order.
vScript == <<"<", "s", "c", "r", "i", "p", "t", ">">>
vSqli == <<"'", " ", "O", "R", " ", "1", "=", "1">>
Vectors == << [vector |-> vScript, type |-> "XSS"], [vector |-> vSqli, type |-> "SQLi"] >>

\* The --sensitive file and the sanitized characters.
Secret == <<"s", "e", "c", "r", "e", "t">>
Sensitive == { Secret }
DefaultSanitizedChars == { <<"<">>, <<">">> }

\* Response bodies: plain, echoing a vector verbatim, echoing the script
\* vector HTML-escaped, and leaking the sensitive token.
Plain == <<"o", "k">>
Echo(vector) == Plain \o vector \o Plain
Escaped == <<"&", "l", "t", ";", "s", "c", "r", "i", "p", "t", "&", "g", "t", ";">>
Leak == Plain \o Secret

\* check_for_sanitization that asks only whether the vector is in the body.
check_for_sanitization_any(vector, response, sanitized_chars) ==
    contains(response.text, vector)

\* check_for_sanitization: the loop over sanitized_chars.
RECURSIVE check_for_sanitization(_, _, _)
check_for_sanitization(vector, response, sanitized_chars) ==
    IF sanitized_chars = {} THEN FALSE
    ELSE LET char == CHOOSE c \in sanitized_chars : TRUE
         IN IF contains(vector, char) /\ contains(response.text, vector)
              THEN TRUE
              ELSE check_for_sanitization(vector, response, sanitized_chars \ {char})

\* check_for_sensitive_data: the loop over sensitive.
RECURSIVE check_for_sensitive_data(_, _)
check_for_sensitive_data(response, sensitive) ==
    IF sensitive = {} THEN FALSE
    ELSE LET element == CHOOSE e \in sensitive : TRUE
         IN IF contains(response.text, element)
              THEN TRUE
              ELSE check_for_sensitive_data(response, sensitive \ {element})

\* check_for_delayed_response with >= for >.
check_for_delayed_response_ge(response_time, slow) ==
    response_time * 1000 >= slow * 1000000

\* check_for_delayed_response: (response_time * 1000) > slow. The time is a
\* number of seconds in the code and a whole number of microseconds here, so
\* both sides are scaled by 1000000.
check_for_delayed_response(response_time, slow) ==
    response_time * 1000 > slow * 1000000

\* check_http_response_code
check_http_response_code(response) == response.status_code # 200

\* "HTTP response code " + str(response.status_code)
http_code_label(status_code) ==
    CASE status_code = 200 -> "HTTP response code 200"
      [] status_code = 404 -> "HTTP response code 404"
      [] status_code = 500 -> "HTTP response code 500"

\* The elements of a list.
Range(list) == { list[i] : i \in 1..Len(list) }

\* The four checks of run_checks in order: the TestResults after the
\* increments and the list vulnerabilities.
run_the_checks(vector, response, response_time, results, against) ==
    LET s1 == IF check_for_sanitization(vector, response, against.sanitized_chars)
                THEN [tr |-> increment(results, "Unsanitized input"),
                      v |-> <<"Unsanitized input">>]
                ELSE [tr |-> results, v |-> <<>>]
        s2 == IF check_for_sensitive_data(response, against.sensitive)
                THEN [tr |-> increment(s1.tr, "Sensitive data leaked"),
                      v |-> Append(s1.v, "Sensitive data leaked")]
                ELSE s1
        s3 == IF check_for_delayed_response(response_time, against.slow)
                THEN [tr |-> increment(s2.tr, "Delayed response"),
                      v |-> Append(s2.v, "Delayed response")]
                ELSE s2
    IN IF check_http_response_code(response)
         THEN [tr |-> increment(s3.tr, "HTTP response code "),
               v |-> Append(s3.v, http_code_label(response.status_code))]
         ELSE s3

\* run_checks that counts the vector's category once per vulnerability found.
run_checks_per_flag(vector, vector_type, target, response, response_time, results, against) ==
    LET c == run_the_checks(vector, response, response_time, results, against)
        bump[n \in 0..4] == IF n = 0 THEN c.tr ELSE increment(bump[n - 1], vector_type)
    IN IF Len(c.v) > 0
         THEN add_page(bump[Len(c.v)], target, vector_type, Range(c.v))
         ELSE c.tr

\* run_checks(vector, vector_type, target, response, response_time,
\* test_results, check_against): test_results after the call.
run_checks(vector, vector_type, target, response, response_time, results, against) ==
    LET c == run_the_checks(vector, response, response_time, results, against)
    IN IF Len(c.v) > 0
         THEN add_page(increment(c.tr, vector_type), target, vector_type, Range(c.v))
         ELSE c.tr

\* What the probes answer: a body, a status and a time in microseconds.
Bodies == { Plain, Echo(vScript), Escaped, Leak }
StatusCodes == { 200, 500 }
ResponseTimes == { 400000, 500000, 600000 }
Targets == { RootA, RootA \o hX }

\* test_pages up to check_against: the defaults, or the --sanitized-chars file
\* and the --slow value given.
ChecksInit ==
    /\ check_against \in [sensitive : {Sensitive},
                          sanitized_chars : {DefaultSanitizedChars, {<<"'">>}},
                          slow : {DefaultSlow, 400}]
    /\ test_results = NewTestResults
    /\ probe = <<>>
    /\ nProbes = 0

\* One call of run_checks on the response to one probe.
RunChecks ==
    /\ nProbes < MaxProbes
    /\ \E i \in 1..Len(Vectors), target \in Targets, text \in Bodies,
          status_code \in StatusCodes, response_time \in ResponseTimes :
          \E response \in {[text |-> text, status_code |-> status_code]} :
             /\ probe' = [vector |-> Vectors[i].vector, vector_type |-> Vectors[i].type,
                          target |-> target, response |-> response,
                          response_time |-> response_time,
                          unsanitized |-> check_for_sanitization(
                              Vectors[i].vector, response, check_against.sanitized_chars),
                          leaked |-> check_for_sensitive_data(
                              response, check_against.sensitive),
                          delayed |-> check_for_delayed_response(
                              response_time, check_against.slow),
                          bad_status |-> check_http_response_code(response)]
             /\ test_results' = run_checks(Vectors[i].vector, Vectors[i].type, target,
                                           response, response_time, test_results,
                                           check_against)
    /\ nProbes' = nProbes + 1
    /\ UNCHANGED check_against
    /\ UNCHANGED <<trVars, crawlVars, testVars>>

InitChecks == TRFresh /\ CrawlOff /\ ChecksInit /\ TestOff

SpecChecks == InitChecks /\ [][RunChecks]_vars

----------------------------------------------------------------------------
(* Properties of the vulnerability checks                                  *)

\* The count a TestResults holds for an element (0 when it has none).
CountOf(tr, element) ==
    IF element \in DOMAIN tr.counts THEN tr.counts[element] ELSE 0

\* The vulnerability-kind counters and the flag strings of the last probe.
KindCounters ==
    { "Unsanitized input", "Sensitive data leaked", "Delayed response", "HTTP response code " }
KindsFired(p) ==
    (IF p.unsanitized THEN {"Unsanitized input"} ELSE {})
    \cup (IF p.leaked THEN {"Sensitive data leaked"} ELSE {})
    \cup (IF p.delayed THEN {"Delayed response"} ELSE {})
    \cup (IF p.bad_status THEN {"HTTP response code "} ELSE {})
FlagStrings(p) ==
    (KindsFired(p) \ {"HTTP response code "})
    \cup (IF p.bad_status THEN {http_code_label(p.response.status_code)} ELSE {})

\* C14: in every run_checks call each predicate that fires adds exactly one
\* to its vulnerability-kind counter; when at least one fires the vector's
\* category counter goes up by exactly one and the target page records the
\* flag strings under the category; when none fires pages and counts are
\* unchanged. One SQLi probe whose response leaks a sensitive token, on an
\* empty TestResults, gives pages {page: {SQLi: {Sensitive data leaked}}} and
\* counts {Sensitive data leaked: 1, SQLi: 1}.
C14_RunChecksEffect ==
    [][ nProbes' = nProbes + 1 =>
          /\ \A k \in KindCounters :
                CountOf(test_results', k)
                  = CountOf(test_results, k) + (IF k \in KindsFired(probe') THEN 1 ELSE 0)
          /\ \A t \in VectorTypes :
                CountOf(test_results', t)
                  = CountOf(test_results, t)
                    + (IF t = probe'.vector_type /\ KindsFired(probe') # {} THEN 1 ELSE 0)
          /\ DOMAIN test_results'.counts \subseteq KindCounters \cup VectorTypes
          /\ KindsFired(probe') = {} => test_results' = test_results
          /\ KindsFired(probe') # {} =>
                /\ DOMAIN test_results'.pages = DOMAIN test_results.pages \cup {probe'.target}
                /\ \A page \in DOMAIN test_results'.pages, t \in VectorTypes :
                      FlagsOf(test_results', page, t)
                        = FlagsOf(test_results, page, t)
                          \cup (IF page = probe'.target /\ t = probe'.vector_type
                                  THEN FlagStrings(probe') ELSE {})
                /\ \A page \in DOMAIN test_results'.pages :
                      CategoriesOf(test_results', page)
                        = CategoriesOf(test_results, page)
                          \cup (IF page = probe'.target THEN {probe'.vector_type} ELSE {})
          /\ ( /\ test_results = NewTestResults
               /\ probe'.vector_type = "SQLi"
               /\ KindsFired(probe') = {"Sensitive data leaked"} ) =>
                test_results' =
                  [pages |-> (probe'.target :> ("SQLi" :> {"Sensitive data leaked"})),
                   counts |-> ("Sensitive data leaked" :> 1 @@ "SQLi" :> 1)]
      ]_vars

\* A probe that raised two flags was counted once under its category, and the
\* probe after it raised none.
C14_Witness ==
    /\ nProbes = 2
    /\ KindsFired(probe) = {}
    /\ DOMAIN test_results.counts = {"Sensitive data leaked", "Delayed response", "SQLi"}
    /\ test_results.counts["SQLi"] = 1


\* C15: check_for_sanitization returns true exactly when some character of
\* the sanitized-character set occurs in the vector and the whole vector
\* occurs verbatim in the response body; with the set {<, >} and the vector
\* <script>, a body containing <script> is flagged and a body containing only
\* the HTML-escaped payload is not.
C15_UnsanitizedEcho ==
    nProbes > 0 =>
        /\ probe.unsanitized
             <=> /\ \E char \in check_against.sanitized_chars : contains(probe.vector, char)
                 /\ contains(probe.response.text, probe.vector)
        /\ (check_against.sanitized_chars = {<<"<">>, <<">">>} /\ probe.vector = vScript) =>
             /\ probe.response.text = Echo(vScript) => probe.unsanitized
             /\ probe.response.text = Escaped => ~probe.unsanitized

\* An escaped echo of <script> was not flagged after a verbatim echo was.
C15_Witness ==
    /\ nProbes = 2
    /\ check_against.sanitized_chars = {<<"<">>, <<">">>}
    /\ probe.vector = vScript
    /\ probe.response.text = Escaped
    /\ ~probe.unsanitized
    /\ CountOf(test_results, "Unsanitized input") = 1

\* C16: a probe is flagged as slow exactly when its elapsed time in
\* milliseconds is strictly greater than the slow threshold, whose default is
\* 500: 600 ms is flagged, 400 ms is not, exactly 500 ms is not.
C16_SlowIsStrictlyGreater ==
    /\ DefaultSlow = 500
    /\ nProbes > 0 =>
        /\ probe.delayed <=> probe.response_time > check_against.slow * 1000
        /\ check_against.slow = 500 =>
             /\ probe.response_time = 600000 => probe.delayed
             /\ probe.response_time = 400000 => ~probe.delayed
             /\ probe.response_time = 500000 => ~probe.delayed

\* A response of exactly 500 ms was not flagged after a slower one was.
C16_Witness ==
    /\ nProbes = 2
    /\ check_against.slow = DefaultSlow
    /\ probe.response_time = 500000
    /\ ~probe.delayed
    /\ CountOf(test_results, "Delayed response") = 1

----------------------------------------------------------------------------
(* Input discovery: parse_urls, find_form_parameters, input_discovery      *)

Ampersand == <<"&">>
Equals == <<"=">>
hXab == <<"x", "?", "a", "=", "1", "&", "b", "=", "2">>
hGq == <<"g", "?", "q", "=", "1">>

\* browser.page.find_all("form"), each form with its find_all("input"): the
\* page /x holds a login form, the page /d/ an upload form.
find_all_forms(page) ==
    CASE page.title = "x" ->
            << [form |-> "login",
                inputs |-> << [name |-> <<"u">>, type |-> "text"],
                              [name |-> <<"p">>, type |-> "password"] >>] >>
      [] page.title = "d" ->
            << [form |-> "upload", inputs |-> << [name |-> <<"f">>, type |-> "file"] >>] >>
      [] OTHER -> <<>>

\* The cookies of the site: a session id and a security level.
Sid == <<"s", "i", "d">>
Security == <<"s", "e", "c">>
S0 == <<"s", "0">>
S1 == <<"s", "1">>
Low == <<"l", "o", "w">>

\* The session's cookie jar after a response of the site to a request issued
\* with jar: the server issues a session id when the request carries none,
\* a new one when it carries one it does not know, and the security level when
\* the request carries none.
set_cookies(jar) ==
    LET sid == IF Sid \notin DOMAIN jar THEN S0
               ELSE IF jar[Sid] \in {S0, S1} THEN jar[Sid] ELSE S1
        security == IF Security \in DOMAIN jar THEN jar[Security] ELSE Low
    IN dict_set(dict_set(jar, Sid, sid), Security, security)

\* What the site answers to a GET of url: where the browser ends, the status,
\* the body and the time taken in microseconds. The body echoes the query
\* string as sent, the page /g shows the sensitive token, the page /d/ is slow.
respond(st, url) ==
    LET got == fetch(st, url)
        page == got.response.page
        query == IF contains(url, QuestionMark)
                   THEN slice_from(url, find(url, QuestionMark) + 1) ELSE <<>>
    IN [browser |-> [url |-> got.url, page |-> page],
        response |-> [text |-> Plain \o query
                                 \o (IF page.title = "g" THEN Secret ELSE <<>>),
                      status_code |-> got.response.status_code],
        response_time |-> IF page.title = "d" THEN 600000 ELSE 100000]

\* The keys of a dict in the order a for loop visits them: the order in which
\* they were first inserted.
RECURSIVE keys_in_order(_, _)
keys_in_order(inserted, seen) ==
    IF inserted = <<>> THEN <<>>
    ELSE IF Head(inserted) \in seen THEN keys_in_order(Tail(inserted), seen)
    ELSE <<Head(inserted)>> \o keys_in_order(Tail(inserted), seen \cup {Head(inserted)})

\* for page in valid_pages
pages_in_order == keys_in_order(recorded, {})

\* The loop of parse_urls from page number i on. parsed_urls is kept as the
\* list of its values in key order; the key of a value is its first element.
RECURSIVE parse_urls_from(_, _, _)
parse_urls_from(pages, i, parsed) ==
    IF i > Len(pages) THEN parsed
    ELSE LET url_parts == split(pages[i], QuestionMark)
             url == url_parts[1]
             p1 == IF \E n \in 1..Len(parsed) : parsed[n][1] = url
                     THEN parsed ELSE Append(parsed, <<url>>)
             at == CHOOSE n \in 1..Len(p1) : p1[n][1] = url
         IN parse_urls_from(pages, i + 1, [p1 EXCEPT ![at] = @ \o Tail(url_parts)])

\* parse_urls(valid_pages)
parse_urls(pages) == parse_urls_from(pages, 1, <<>>)

\* The cookies of a jar, as the set find_form_parameters collects.
cookies_of(jar) == { [name |-> n, value |-> jar[n]] : n \in DOMAIN jar }

\* input_discovery up to its loop. The browser has been to the site since
\* fuzzer() opened the url, so the session holds the cookies the site sets.
ParseUrls ==
    /\ pc = "done"
    /\ parsed_urls' = parse_urls(pages_in_order)
    /\ pending' = [n \in 1..Len(parsed_urls') |-> parsed_urls'[n][1]]
    /\ cookies' = {}
    /\ session_cookies' = set_cookies(EmptyDict)
    /\ pc' = "inputs"
    /\ UNCHANGED <<site, options, base_url, browser, discovered_urls, external_links,
                   valid_pages, stack, possible_pages, recorded, followed, probes>>
    /\ UNCHANGED <<cookiejar, url_results, form_results, cookie_results,
                   overall_results, remaining_results, issued, error>>
    /\ UNCHANGED <<trVars, checkVars>>

\* One iteration of the loop of input_discovery: find_form_parameters(browser,
\* url, valid_pages, cookies). browser.page.find_all raises AttributeError when
\* the answer is not HTML, valid_pages[page] raises KeyError when page is not a
\* key; nothing catches either.
FindFormParameters ==
    /\ pc = "inputs"
    /\ pending # <<>>
    /\ \E page \in {Head(pending)} :
       \E got \in {open(site, page)} :
          /\ browser' = got.browser
          /\ IF got.browser.page.is_none \/
                (find_all_forms(got.browser.page) # <<>> /\ page \notin DOMAIN valid_pages)
               THEN /\ error' = IF got.browser.page.is_none
                                  THEN "AttributeError" ELSE "KeyError"
                    /\ pc' = "raised"
                    /\ UNCHANGED <<valid_pages, cookies, session_cookies, pending>>
               ELSE /\ valid_pages' =
                         IF find_all_forms(got.browser.page) # <<>>
                           THEN [valid_pages EXCEPT
                                   ![page] = Append(@, find_all_forms(got.browser.page))]
                           ELSE valid_pages
                    /\ session_cookies' = set_cookies(session_cookies)
                    /\ cookies' = cookies \cup cookies_of(session_cookies')
                    /\ pending' = Tail(pending)
                    /\ UNCHANGED <<pc, error>>
    /\ UNCHANGED <<site, options, base_url, discovered_urls, external_links,
                   stack, possible_pages, recorded, followed, probes>>
    /\ UNCHANGED <<parsed_urls, cookiejar, url_results, form_results, cookie_results,
                   overall_results, remaining_results, issued>>
    /\ UNCHANGED <<trVars, checkVars>>

----------------------------------------------------------------------------
(* The tests: test_pages and its sweeps                                    *)

\* The lists of a list, joined in order.
RECURSIVE concat(_)
concat(lists) == IF lists = <<>> THEN <<>> ELSE Head(lists) \o concat(Tail(lists))

\* A probe as the history keeps it.
Probe(sweep, target, form, input, vector) ==
    [sweep |-> sweep, target |-> target, form |-> form, input |-> input, vector |-> vector]

\* The innermost loop of test_url_parameters for one param of one url:
\* param = "?" + param.split("=")[0] + "=", one iteration per vector.
param_probes(page_url, param) ==
    LET name == QuestionMark \o split(param, Equals)[1] \o Equals
    IN [v \in 1..Len(Vectors) |->
          [url |-> page_url \o name \o Vectors[v].vector, target |-> page_url \o name,
           vector |-> v]]

\* The iterations of the loops of test_url_parameters, in order.
url_probes(parsed) ==
    concat([u \in 1..Len(parsed) |->
              IF Len(parsed[u]) < 2 THEN <<>>
              ELSE concat([j \in 1..(Len(parsed[u]) - 1) |->
                             param_probes(parsed[u][1], parsed[u][j + 1])])])

\* The loops of test_form_parameters over one form with the input loop
\* outside the vector loop.
one_form_probes_by_input(page, i, inputs) ==
    concat([n \in 1..Len(inputs) |->
              [v \in 1..Len(Vectors) |-> [page |-> page, form |-> i, vector |-> v, input |-> n]]])

\* The loops of test_form_parameters over one form: for vector in vectors,
\* for inpt in inputs.
one_form_probes(page, i, inputs) ==
    concat([v \in 1..Len(Vectors) |->
              [n \in 1..Len(inputs) |-> [page |-> page, form |-> i, vector |-> v, input |-> n]]])

\* The iterations of the loops of test_form_parameters, in order.
form_probes(pages, valid) ==
    concat([p \in 1..Len(pages) |->
              IF Len(valid[pages[p]]) < 2 THEN <<>>
              ELSE concat([i \in 1..Len(valid[pages[p]][2]) |->
                             one_form_probes(pages[p], i, valid[pages[p]][2][i].inputs)])])

\* The name of the file a vector is saved to for an input of type file.
InputHtml == <<"i", "n", "p", "u", "t", ".", "h", "t", "m", "l">>

\* The request submit_selected sends for the form of page with the input set.
submit_url(page, inpt, vector) ==
    strip_query(page) \o QuestionMark \o inpt.name \o Equals
      \o (IF inpt.type = "file" THEN InputHtml ELSE vector)

\* The sites the tests are run against.
TestSites ==
    { [index |-> <<A(hXq1), A(hXq2), A(hLogout)>>, x |-> <<>>, d |-> <<>>,
       redirect |-> RootA \o hX],
      [index |-> <<A(hX), A(hD)>>, x |-> <<>>, d |-> <<A(hX)>>, redirect |-> RootA \o hX],
      [index |-> <<A(hX), A(hXab)>>, x |-> <<>>, d |-> <<>>, redirect |-> RootA \o hX],
      [index |-> <<A(hXab), A(hXq1)>>, x |-> <<A(hD), A(hR)>>, d |-> <<>>,
       redirect |-> RootA \o hX],
      [index |-> <<A(hG), A(hGq)>>, x |-> <<>>, d |-> <<>>, redirect |-> RootA \o hX] }

\* test_pages up to the call of test_url_parameters, with neither
\* --sanitized-chars nor --slow given.
TestPages ==
    /\ pc = "inputs"
    /\ pending = <<>>
    /\ check_against' = [sensitive |-> Sensitive, sanitized_chars |-> DefaultSanitizedChars,
                         slow |-> DefaultSlow]
    /\ url_results' = NewTestResults
    /\ pending' = url_probes(parsed_urls)
    /\ pc' = "url_sweep"
    /\ UNCHANGED <<site, options, base_url, browser, discovered_urls, external_links,
                   valid_pages, stack, possible_pages, recorded, followed, probes>>
    /\ UNCHANGED <<parsed_urls, cookies, session_cookies, cookiejar, form_results,
                   cookie_results, overall_results, remaining_results, issued, error>>
    /\ UNCHANGED <<trVars, test_results, probe, nProbes>>

\* A navigation raises (requests.exceptions.ConnectionError and the like);
\* nothing in the program catches it.
Raise ==
    /\ error' = "ConnectionError"
    /\ pc' = "raised"

\* One iteration of the innermost loop of test_url_parameters.
UrlProbe ==
    /\ pc = "url_sweep"
    /\ pending # <<>>
    /\ \E p \in {Head(pending)}, fault \in BOOLEAN :
          /\ issued' = Append(issued, Probe("url", p.url, 0, 0, p.vector))
          /\ IF fault
               THEN Raise /\ UNCHANGED <<browser, url_results, pending>>
               ELSE \E got \in {respond(site, p.url)} :
                      /\ browser' = got.browser
                      /\ url_results' =
                           run_checks(Vectors[p.vector].vector, Vectors[p.vector].type,
                                      p.target, got.response, got.response_time,
                                      url_results, check_against)
                      /\ pending' = Tail(pending)
                      /\ UNCHANGED <<pc, error>>
    /\ UNCHANGED <<site, options, base_url, discovered_urls, external_links,
                   valid_pages, stack, possible_pages, recorded, followed, probes>>
    /\ UNCHANGED <<parsed_urls, cookies, session_cookies, cookiejar, form_results,
                   cookie_results, overall_results, remaining_results>>
    /\ UNCHANGED <<trVars, checkVars>>

\* test_url_parameters returns and test_form_parameters starts.
TestFormParameters ==
    /\ pc = "url_sweep"
    /\ pending = <<>>
    /\ form_results' = NewTestResults
    /\ pending' = form_probes(pages_in_order, valid_pages)
    /\ pc' = "form_sweep"
    /\ UNCHANGED <<site, options, base_url, browser, discovered_urls, external_links,
                   valid_pages, stack, possible_pages, recorded, followed, probes>>
    /\ UNCHANGED <<parsed_urls, cookies, session_cookies, cookiejar, url_results,
                   cookie_results, overall_results, remaining_results, issued, error>>
    /\ UNCHANGED <<trVars, checkVars>>

\* One iteration of the innermost loop of test_form_parameters: open the page,
\* select the form, set the input, submit.
FormProbe ==
    /\ pc = "form_sweep"
    /\ pending # <<>>
    /\ \E p \in {Head(pending)}, fault \in BOOLEAN :
       \E inpt \in {valid_pages[p.page][2][p.form].inputs[p.input]} :
          /\ issued' = Append(issued, Probe("form", p.page, p.form, p.input, p.vector))
          /\ IF fault
               THEN Raise /\ UNCHANGED <<browser, form_results, pending>>
               ELSE \E got \in {respond(site,
                                        submit_url(p.page, inpt, Vectors[p.vector].vector))} :
                      /\ browser' = got.browser
                      /\ form_results' =
                           run_checks(Vectors[p.vector].vector, Vectors[p.vector].type,
                                      p.page, got.response, got.response_time,
                                      form_results, check_against)
                      /\ pending' = Tail(pending)
                      /\ UNCHANGED <<pc, error>>
    /\ UNCHANGED <<site, options, base_url, discovered_urls, external_links,
                   valid_pages, stack, possible_pages, recorded, followed, probes>>
    /\ UNCHANGED <<parsed_urls, cookies, session_cookies, cookiejar, url_results,
                   cookie_results, overall_results, remaining_results>>
    /\ UNCHANGED <<trVars, checkVars>>

\* The orders in which a for loop may visit a set.
orders_of(set) ==
    { o \in [1..Cardinality(set) -> set] : \A i, j \in 1..Cardinality(set) : i # j => o[i] # o[j] }

\* cookies.set(name, None) followed by cookies.set(name, vector, ...).
set_cookie(jar, name, vector) == dict_set(jar, name, vector)

\* A sweep that keeps the latest change seen for a name.
record_changes_latest(results, jar, old) ==
    [n \in DOMAIN results \cup { m \in DOMAIN jar : m \notin DOMAIN old \/ jar[m] # old[m] } |->
        IF n \in DOMAIN jar /\ (n \notin DOMAIN old \/ jar[n] # old[n])
          THEN <<IF n \in DOMAIN old THEN old[n] ELSE <<>>, jar[n]>>
          ELSE results[n]]

\* The loop of test_cookies over the cookies of the jar after a probe: the
\* first change seen for a name is kept.
record_changes(results, jar, old) ==
    [n \in DOMAIN results \cup { m \in DOMAIN jar : m \notin DOMAIN old \/ jar[m] # old[m] } |->
        IF n \in DOMAIN results THEN results[n]
        ELSE <<IF n \in DOMAIN old THEN old[n] ELSE <<>>, jar[n]>>]

\* test_form_parameters returns and test_cookies starts: it opens base_url and
\* copies the cookie jar. A set is visited in no fixed order.
TestCookies ==
    /\ pc = "form_sweep"
    /\ pending = <<>>
    /\ \E fault \in BOOLEAN :
         IF fault
           THEN Raise /\ UNCHANGED <<browser, session_cookies, cookiejar, cookie_results,
                                     pending>>
           ELSE /\ browser' = open(site, base_url).browser
                /\ session_cookies' = set_cookies(session_cookies)
                /\ cookiejar' = session_cookies'
                /\ cookie_results' = EmptyDict
                /\ \E order \in orders_of(cookies) :
                      pending' = concat([c \in 1..Len(order) |->
                                           [v \in 1..Len(Vectors) |->
                                              [cookie |-> order[c], vector |-> v]]])
                /\ pc' = "cookie_sweep"
                /\ UNCHANGED error
    /\ UNCHANGED <<site, options, base_url, discovered_urls, external_links,
                   valid_pages, stack, possible_pages, recorded, followed, probes>>
    /\ UNCHANGED <<parsed_urls, cookies, url_results, form_results, overall_results,
                   remaining_results, issued>>
    /\ UNCHANGED <<trVars, checkVars>>

\* browser.session.cookies = cookiejar.copy()
reset_cookies(jar, copy) == copy

\* One iteration of the inner loop of test_cookies: overwrite the cookie,
\* open base_url, record what changed, reset the cookies.
CookieProbe ==
    /\ pc = "cookie_sweep"
    /\ pending # <<>>
    /\ \E p \in {Head(pending)}, fault \in BOOLEAN :
       \E overwritten \in {set_cookie(session_cookies, p.cookie.name,
                                      Vectors[p.vector].vector)} :
          /\ issued' = Append(issued, Probe("cookie", p.cookie.name, 0, 0, p.vector))
          /\ IF fault
               THEN /\ Raise
                    /\ session_cookies' = overwritten
                    /\ UNCHANGED <<browser, cookie_results, pending>>
               ELSE \E jar \in {set_cookies(overwritten)} :
                      /\ browser' = open(site, base_url).browser
                      /\ cookie_results' =
                           IF jar # cookiejar
                             THEN record_changes(cookie_results, jar, cookiejar)
                             ELSE cookie_results
                      /\ session_cookies' = reset_cookies(jar, cookiejar)
                      /\ pending' = Tail(pending)
                      /\ UNCHANGED <<pc, error>>
    /\ UNCHANGED <<site, options, base_url, discovered_urls, external_links,
                   valid_pages, stack, possible_pages, recorded, followed, probes>>
    /\ UNCHANGED <<parsed_urls, cookies, cookiejar, url_results, form_results,
                   overall_results, remaining_results>>
    /\ UNCHANGED <<trVars, checkVars>>

\* test_cookies returns; overall_results = url_results + form_results and
\* check_remaining_pages starts.
CheckRemainingPages ==
    /\ pc = "cookie_sweep"
    /\ pending = <<>>
    /\ overall_results' = add(url_results, form_results)
    /\ remaining_results' = NewTestResults
    /\ pending' = pages_in_order
    /\ pc' = "remaining"
    /\ UNCHANGED <<site, options, base_url, browser, discovered_urls, external_links,
                   valid_pages, stack, possible_pages, recorded, followed, probes>>
    /\ UNCHANGED <<parsed_urls, cookies, session_cookies, cookiejar, url_results,
                   form_results, cookie_results, issued, error>>
    /\ UNCHANGED <<trVars, checkVars>>

\* The two checks of check_remaining_pages on one response.
remaining_checks(results, response, response_time, against) ==
    LET r1 == IF check_for_sensitive_data(response, against.sensitive)
                THEN increment(results, "Sensitive data leaked") ELSE results
    IN IF check_for_delayed_response(response_time, against.slow)
         THEN increment(r1, "Delayed response") ELSE r1

\* page in overall_results.get_pages()
skip_page(page, overall) == page \in DOMAIN overall.pages

\* One iteration of the loop of check_remaining_pages.
RemainingProbe ==
    /\ pc = "remaining"
    /\ pending # <<>>
    /\ \E page \in {Head(pending)}, fault \in BOOLEAN :
         IF skip_page(page, overall_results)
           THEN /\ pending' = Tail(pending)
                /\ UNCHANGED <<browser, remaining_results, issued, pc, error>>
           ELSE /\ issued' = Append(issued, Probe("remaining", page, 0, 0, 0))
                /\ IF fault
                     THEN Raise /\ UNCHANGED <<browser, remaining_results, pending>>
                     ELSE \E got \in {respond(site, page)} :
                            /\ browser' = got.browser
                            /\ remaining_results' =
                                 remaining_checks(remaining_results, got.response,
                                                  got.response_time, check_against)
                            /\ pending' = Tail(pending)
                            /\ UNCHANGED <<pc, error>>
    /\ UNCHANGED <<site, options, base_url, discovered_urls, external_links,
                   valid_pages, stack, possible_pages, recorded, followed, probes>>
    /\ UNCHANGED <<parsed_urls, cookies, session_cookies, cookiejar, url_results,
                   form_results, cookie_results, overall_results>>
    /\ UNCHANGED <<trVars, checkVars>>

\* check_remaining_pages returns and test_pages merges its results.
MergeRemaining ==
    /\ pc = "remaining"
    /\ pending = <<>>
    /\ overall_results' = add(overall_results, remaining_results)
    /\ pc' = "finished"
    /\ UNCHANGED <<site, options, base_url, browser, discovered_urls, external_links,
                   valid_pages, stack, possible_pages, recorded, followed, probes>>
    /\ UNCHANGED <<parsed_urls, cookies, session_cookies, cookiejar, pending, url_results,
                   form_results, cookie_results, remaining_results, issued, error>>
    /\ UNCHANGED <<trVars, checkVars>>

\* The command test on one of the test sites.
InitTest == TRFresh /\ CrawlInitOn(TestSites, {RootA}) /\ ChecksOff /\ TestOff

NextTest ==
    \/ PageDiscovery
    \/ CrawlFollow
    \/ CrawlReturn
    \/ GuessPages
    \/ GuessProbe
    \/ GuessReturn
    \/ ParseUrls
    \/ FindFormParameters
    \/ TestPages
    \/ UrlProbe
    \/ TestFormParameters
    \/ FormProbe
    \/ TestCookies
    \/ CookieProbe
    \/ CheckRemainingPages
    \/ RemainingProbe
    \/ MergeRemaining

SpecTest == InitTest /\ [][NextTest]_vars

----------------------------------------------------------------------------
(* Properties of input discovery and of the tests                          *)

\* The phases of a run that follow input discovery.
AfterInputDiscovery == {"url_sweep", "form_sweep", "cookie_sweep", "remaining", "finished"}

\* C19: input discovery ends without an error on every inventory crawl and
\* guess produce, touching no key they did not record, and every recorded url
\* whose document holds a form, a url with a query string included, has the
\* forms appended to its own record.
C19_InputDiscoveryCompletes ==
    /\ error \notin {"KeyError", "AttributeError"}
    /\ pc \in AfterInputDiscovery =>
         \A page \in DOMAIN valid_pages :
            LET forms == find_all_forms(open(site, page).browser.page)
            IN forms # <<>> => (Len(valid_pages[page]) = 2 /\ valid_pages[page][2] = forms)

\* The probes of one sweep, in the order issued.
IsUrlProbe(p) == p.sweep = "url"
IsFormProbe(p) == p.sweep = "form"
IsRemainingProbe(p) == p.sweep = "remaining"

\* The parameter names of a recorded parameter string name=value&name=value.
NamesIn(param) == { split(pair, Equals)[1] : pair \in Range(split(param, Ampersand)) }

\* C20: the URL-parameter sweep probes path?name=<vector> for every base path
\* with a recorded parameter string, every parameter name occurring in its
\* strings and every vector, and nothing else.
C20_UrlSweepProbesEveryName ==
    pc = "form_sweep" =>
        { p.target : p \in Range(SelectSeq(issued, IsUrlProbe)) }
          = UNION { { parsed_urls[u][1] \o QuestionMark \o name \o Equals \o Vectors[v].vector :
                        name \in UNION { NamesIn(parsed_urls[u][j]) :
                                           j \in 2..Len(parsed_urls[u]) },
                        v \in 1..Len(Vectors) } :
                    u \in 1..Len(parsed_urls) }

\* C13: a navigation or submission that raises during the URL-parameter sweep
\* or the form sweep leaves the sweep running: the next probe is up and the
\* results of the earlier probes are kept.
C13_FaultDoesNotAbortSweep ==
    [][ (pc \in {"url_sweep", "form_sweep"} /\ pending # <<>> /\ error' = "ConnectionError") =>
          /\ pc' = pc
          /\ pending' = Tail(pending)
          /\ url_results' = url_results
          /\ form_results' = form_results
      ]_vars

\* C12: after every probe of the cookie sweep, the navigation having succeeded
\* or raised, the session's cookie jar equals the copy taken at the start of
\* the sweep.
C12_CookiesRestoredAfterEveryProbe ==
    [][ (pc = "cookie_sweep" /\ issued' # issued) => session_cookies' = cookiejar ]_vars

\* The pages the sweep of the remaining pages has opened.
RemainingProbed == { p.target : p \in Range(SelectSeq(issued, IsRemainingProbe)) }

\* The URL-parameter sweep has recorded a flag for a parameter of the page.
FlaggedByUrlSweep(page) == \E t \in DOMAIN url_results.pages : strip_query(t) = page

\* The form sweep has recorded a flag for the page.
FlaggedByFormSweep(page) == page \in DOMAIN form_results.pages

\* C17: check_remaining_pages opens exactly the pages of the inventory for
\* which neither the URL-parameter sweep nor the form sweep recorded a flag.
C17_RemainingSweepSkipsFlaggedPages ==
    pc = "finished" =>
        RemainingProbed = { page \in DOMAIN valid_pages :
                              ~FlaggedByUrlSweep(page) /\ ~FlaggedByFormSweep(page) }

\* Where a page comes in the loop over valid_pages.
PagePosition(page) == CHOOSE n \in 1..Len(pages_in_order) : pages_in_order[n] = page

\* a comes before b in the order of the four keys k1..k4.
Precedes(a, b) ==
    \E n \in 1..4 : a[n] < b[n] /\ \A m \in 1..(n - 1) : a[m] = b[m]

FormIssued == SelectSeq(issued, IsFormProbe)

\* Every input of every form recorded, with every vector.
FormCombinations ==
    UNION { UNION { { <<page, i, n, v>> :
                        n \in 1..Len(valid_pages[page][2][i].inputs),
                        v \in 1..Len(Vectors) } :
                    i \in 1..Len(valid_pages[page][2]) } :
            page \in { q \in DOMAIN valid_pages : Len(valid_pages[q]) >= 2 } }

\* C18 as stated: the form sweep issues its probes in the order page x form
\* x input x vector.
C18_FormSweepInputMajor ==
    \A a, b \in 1..Len(FormIssued) :
        a < b => Precedes(<<PagePosition(FormIssued[a].target), FormIssued[a].form,
                            FormIssued[a].input, FormIssued[a].vector>>,
                          <<PagePosition(FormIssued[b].target), FormIssued[b].form,
                            FormIssued[b].input, FormIssued[b].vector>>)

\* C18 amended: the form sweep issues its probes in the order page x form x
\* vector x input, and when it returns it has issued one probe for every input
\* of every recorded form and every vector.
C18_FormSweepVectorMajor ==
    /\ \A a, b \in 1..Len(FormIssued) :
        a < b => Precedes(<<PagePosition(FormIssued[a].target), FormIssued[a].form,
                            FormIssued[a].vector, FormIssued[a].input>>,
                          <<PagePosition(FormIssued[b].target), FormIssued[b].form,
                            FormIssued[b].vector, FormIssued[b].input>>)
    /\ pc \in {"cookie_sweep", "remaining", "finished"} =>
         { <<p.target, p.form, p.input, p.vector>> : p \in Range(FormIssued) }
           = FormCombinations

\* The form sweep has returned after trying both vectors on both inputs of a form.
C18_Witness ==
    /\ pc = "cookie_sweep"
    /\ \E a \in 1..Len(FormIssued) : FormIssued[a].input = 2 /\ FormIssued[a].vector = 2

----------------------------------------------------------------------------
(* Termination of page discovery                                           *)

\* The hrefs of a list of anchors.
AnchorHrefs(anchors) == { anchors[i].href : i \in { k \in 1..Len(anchors) : anchors[k].has_href } }

\* Every href on every page the web server holds: the link graph.
SiteHrefs ==
    AnchorHrefs(site.index) \cup AnchorHrefs(site.x) \cup AnchorHrefs(site.d)
      \cup {hHome, hD, hY, hG}

\* The crawl_link calls made so far by the second loop of crawl_link and by
\* guess_pages.
CrawlCalls ==
    Cardinality({ i \in 1..Len(followed) : followed[i].status_code # 404 })
      + Cardinality({ i \in 1..Len(probes) : open(site, probes[i]).status_code # 404 })

\* C21: on every link graph, cyclic ones and self-links included,
\* page_discovery returns; a link is in discovered_urls before it is followed,
\* no href is followed twice in a run, and the crawl_link calls made after the
\* first number at most the distinct hrefs plus the guessed candidates.
C21_CrawlTerminates ==
    /\ [](\A i, j \in 1..Len(followed) : i # j => followed[i].href # followed[j].href)
    /\ [](CrawlCalls <= Cardinality(SiteHrefs) + Len(probes))
    /\ [][followed' # followed =>
            /\ followed'[Len(followed')].href \in discovered_urls
            /\ followed'[Len(followed')].href \in SiteHrefs]_vars
    /\ <>(pc = "done")

\* page_discovery has returned from a site where /x links to itself and to
\* the home page that links to it, after following the self-link.
C21_Witness ==
    /\ pc = "done"
    /\ site.x = <<A(hX), A(hHome)>>
    /\ \E i \in 1..Len(followed) :
          /\ followed[i].href = hX
          /\ followed[i].target = RootA \o hX
          /\ \E j \in 1..(i - 1) : followed[j].target = RootA \o hX

----------------------------------------------------------------------------
(* Followed links that are answered with 404                               *)

\* C22: a followed link answered with status 404 is not added to
\* valid_pages, then or later, and no anchor of the page that came with the
\* answer is extracted or followed: the step leaves valid_pages,
\* discovered_urls and external_links as they were and starts no crawl_link
\* call, and the link of the site's 404 page is never followed.
C22_NotFoundLinkNotCrawled ==
    /\ [](\A i \in 1..Len(followed) :
            followed[i].status_code = 404 =>
               /\ open(site, followed[i].target).browser.url \notin DOMAIN valid_pages
               /\ followed[i].target \notin DOMAIN valid_pages)
    /\ [](\A i \in 1..Len(followed) : followed[i].href # hG)
    /\ [][(followed' # followed /\ followed'[Len(followed')].status_code = 404) =>
            /\ valid_pages' = valid_pages
            /\ recorded' = recorded
            /\ discovered_urls' = discovered_urls
            /\ external_links' = external_links
            /\ Len(stack') = Len(stack)
            /\ Head(stack').current_page = Head(stack).current_page]_vars

\* page_discovery has returned after following a link that was answered with
\* 404 by a page that itself holds a link.
C22_Witness ==
    /\ pc = "done"
    /\ \E i \in 1..Len(followed) :
          /\ followed[i].status_code = 404
          /\ followed[i].href = hM
          /\ AnchorHrefs(open(site, followed[i].target).browser.page.anchors) = {hG}
    /\ hG \notin discovered_urls

----------------------------------------------------------------------------
(* The change map of the cookie sweep                                      *)

IsCookieProbe(p) == p.sweep = "cookie"

\* The probes the cookie sweep has made, in the order it made them.
CookieIssued == SelectSeq(issued, IsCookieProbe)

\* The jar the site leaves after the i-th probe of the sweep: the snapshot
\* with the probed cookie overwritten, as the site answers it.
JarAfter(i) ==
    set_cookies(set_cookie(cookiejar, CookieIssued[i].target,
                           Vectors[CookieIssued[i].vector].vector))

\* After the i-th probe the cookie named n differs from its snapshot value.
Differs(i, n) ==
    /\ n \in DOMAIN JarAfter(i)
    /\ n \notin DOMAIN cookiejar \/ JarAfter(i)[n] # cookiejar[n]

\* The first probe of the sweep after which n differed.
FirstDiffering(n) ==
    CHOOSE i \in 1..Len(CookieIssued) :
        /\ Differs(i, n)
        /\ \A j \in 1..(i - 1) : ~Differs(j, n)

\* C23: while test_cookies runs and after it has returned, cookie_results
\* holds an entry for exactly the names that differed from their snapshot
\* value after some probe made so far, the entry is the pair (snapshot value,
\* value in the jar) of the first such probe in the order the sweep made
\* them, and no step of the sweep changes or removes an entry.
C23_FirstChangeKept ==
    /\ [](pc # "raised" =>
            /\ DOMAIN cookie_results =
                 { n \in UNION { DOMAIN JarAfter(i) : i \in 1..Len(CookieIssued) } :
                     \E i \in 1..Len(CookieIssued) : Differs(i, n) }
            /\ \A n \in DOMAIN cookie_results :
                 cookie_results[n] =
                   << IF n \in DOMAIN cookiejar THEN cookiejar[n] ELSE <<>>,
                      JarAfter(FirstDiffering(n))[n] >>)
    /\ [][pc = "cookie_sweep" =>
            \A n \in DOMAIN cookie_results :
               /\ n \in DOMAIN cookie_results'
               /\ cookie_results'[n] = cookie_results[n]]_vars

\* The sweep is over: both cookies were probed with both vectors, the
\* security cookie differed after each of its probes and holds the pair of
\* the first, the session cookie was replaced by the site.
C23_Witness ==
    /\ pc \notin {"cookie_sweep", "raised"}
    /\ Len(CookieIssued) = 2 * Len(Vectors)
    /\ \E i, j \in 1..Len(CookieIssued) :
          /\ i < j
          /\ CookieIssued[i].target = Security
          /\ CookieIssued[j].target = Security
          /\ Differs(i, Security) /\ Differs(j, Security)
          /\ JarAfter(i)[Security] # JarAfter(j)[Security]
          /\ cookie_results[Security] = <<cookiejar[Security], JarAfter(i)[Security]>>
    /\ Sid \in DOMAIN cookie_results

====
